---- MODULE Spec2Model ----
(***************************************************************************)
(* JSON Lines framing (lunacookies/jsonl): Connection::send_message,       *)
(* Connection::recv_message, Connection::flush and the lock-guarded        *)
(* ArcRwLockTcpStream handle that backs a Connection over one mio socket.  *)
(***************************************************************************)
EXTENDS Integers, Sequences, FiniteSets, TLC

(***************************************************************************)
(* Bounds of the model.                                                    *)
(***************************************************************************)
MaxSends == 2
MaxRecvs == 3
MaxLines == 3
MaxRawLen == 2
MaxIoErrors == 1
MaxFlushes == 1
MaxCalls == 2
MaxBuf == 2
MaxRx == 2

(***************************************************************************)
(* Bytes.  A byte is a one-character string; BAD stands for a byte (0xFF)  *)
(* that cannot occur in UTF-8 text.                                        *)
(***************************************************************************)
LF == "\n"
QUOTE == "\""
BSL == "\\"
BAD == "xFF"
DIGITS == <<"0", "1", "2", "3", "4", "5", "6", "7", "8", "9">>
DigitBytes == {DIGITS[i] : i \in 1..10}
DigitVal(c) == (CHOOSE i \in 1..10 : DIGITS[i] = c) - 1

(***************************************************************************)
(* Message values: String, i64, f64 (only -0.0, what the text -0 parses    *)
(* to) and a map with non-string keys, which serde_json cannot serialize.  *)
(***************************************************************************)
StrV(s) == [t |-> "String", s |-> s, n |-> 0]
IntV(n) == [t |-> "i64", s |-> <<>>, n |-> n]
NegZero == [t |-> "f64", s |-> <<>>, n |-> 0]
BadMap == [t |-> "BadMap", s |-> <<>>, n |-> 0]
NoValue == [t |-> "None", s |-> <<>>, n |-> 0]

Values ==
    { StrV(<<"a">>), StrV(<<LF>>), StrV(<<QUOTE>>), StrV(<<BSL, "n">>),
      IntV(-1), IntV(10), BadMap }
Types == {"String", "i64", "Value"}

(***************************************************************************)
(* serde_json::to_string (lib.rs:58).                                      *)
(***************************************************************************)
\* Mutation: the newline inside a string is written raw instead of escaped.
EscapeCharRaw(c) ==
    IF c = QUOTE THEN <<BSL, QUOTE>>
    ELSE IF c = BSL THEN <<BSL, BSL>>
    ELSE <<c>>

EscapeChar(c) ==
    IF c = QUOTE THEN <<BSL, QUOTE>>
    ELSE IF c = BSL THEN <<BSL, BSL>>
    ELSE IF c = LF THEN <<BSL, "n">>
    ELSE <<c>>

RECURSIVE EscapeStr(_)
EscapeStr(s) ==
    IF s = <<>> THEN <<>> ELSE EscapeChar(Head(s)) \o EscapeStr(Tail(s))

RECURSIVE Itoa(_)
Itoa(n) ==
    IF n < 0 THEN <<"-">> \o Itoa(0 - n)
    ELSE IF n < 10 THEN <<DIGITS[n + 1]>>
    ELSE Itoa(n \div 10) \o <<DIGITS[(n % 10) + 1]>>

to_string(v) ==
    IF v.t = "String" THEN [ok |-> TRUE, text |-> <<QUOTE>> \o EscapeStr(v.s) \o <<QUOTE>>]
    ELSE IF v.t = "i64" THEN [ok |-> TRUE, text |-> Itoa(v.n)]
    ELSE IF v.t = "f64" THEN [ok |-> TRUE, text |-> <<"-", "0", ".", "0">>]
    ELSE [ok |-> FALSE, text |-> <<>>]

(***************************************************************************)
(* serde_json::from_str::<T> (lib.rs:51): skip whitespace, parse one       *)
(* value, accept only whitespace after it.                                 *)
(***************************************************************************)
IsWs(c) == c \in {" ", LF, "\t", "\r"}

RECURSIVE SkipWs(_, _)
SkipWs(text, i) ==
    IF i <= Len(text) /\ IsWs(text[i]) THEN SkipWs(text, i + 1) ELSE i

ParseFail == [ok |-> FALSE, v |-> NoValue, next |-> 0]

\* i is the index after the opening quote; acc the characters decoded so far.
RECURSIVE ParseStr(_, _, _)
ParseStr(text, i, acc) ==
    IF i > Len(text) THEN ParseFail
    ELSE IF text[i] = QUOTE THEN [ok |-> TRUE, v |-> StrV(acc), next |-> i + 1]
    ELSE IF text[i] = BSL THEN
        IF i + 1 > Len(text) THEN ParseFail
        ELSE IF text[i + 1] = QUOTE THEN ParseStr(text, i + 2, Append(acc, QUOTE))
        ELSE IF text[i + 1] = BSL THEN ParseStr(text, i + 2, Append(acc, BSL))
        ELSE IF text[i + 1] = "n" THEN ParseStr(text, i + 2, Append(acc, LF))
        ELSE ParseFail
    ELSE IF text[i] \in {LF, "\t", "\r"} THEN ParseFail
    ELSE ParseStr(text, i + 1, Append(acc, text[i]))

RECURSIVE ParseDigits(_, _, _)
ParseDigits(text, i, acc) ==
    IF i <= Len(text) /\ text[i] \in DigitBytes
    THEN ParseDigits(text, i + 1, 10 * acc + DigitVal(text[i]))
    ELSE [n |-> acc, next |-> i]

\* i is the index of the first digit; neg tells whether a minus sign preceded.
ParseNum(text, i, neg) ==
    IF i > Len(text) \/ text[i] \notin DigitBytes THEN ParseFail
    ELSE IF text[i] = "0" THEN
        IF i + 1 <= Len(text) /\ text[i + 1] \in DigitBytes THEN ParseFail
        ELSE [ok |-> TRUE, v |-> IF neg THEN NegZero ELSE IntV(0), next |-> i + 1]
    ELSE LET d == ParseDigits(text, i, 0)
         IN  [ok |-> TRUE, v |-> IntV(IF neg THEN 0 - d.n ELSE d.n), next |-> d.next]

ParseValue(text, i) ==
    IF i > Len(text) THEN ParseFail
    ELSE IF text[i] = QUOTE THEN ParseStr(text, i + 1, <<>>)
    ELSE IF text[i] = "-" THEN ParseNum(text, i + 1, TRUE)
    ELSE IF text[i] \in DigitBytes THEN ParseNum(text, i, FALSE)
    ELSE ParseFail

Matches(v, T) == T = "Value" \/ v.t = T

from_str(text, T) ==
    LET p == ParseValue(text, SkipWs(text, 1))
    IN  IF p.ok /\ Matches(p.v, T) /\ SkipWs(text, p.next) > Len(text)
        THEN [ok |-> TRUE, v |-> p.v]
        ELSE [ok |-> FALSE, v |-> NoValue]

(***************************************************************************)
(* State.                                                                  *)
(*   source, pos   the bytes of the Connection's source and how many of    *)
(*                 them have been consumed                                 *)
(*   sink          the bytes the Connection's sink has accepted            *)
(*   flushed       how many bytes of sink the sink's flush has pushed out  *)
(*   flushCalls    how often the sink's flush has been invoked             *)
(*   srcErrs       I/O faults the source has raised so far                 *)
(*   sinkErrs      I/O faults the sink has raised so far                   *)
(*   sendLog       one entry per send_message call: value and result       *)
(*   recvCount     recv_message calls made on the current source           *)
(*   last          the latest of them: target type, result, the position   *)
(*                 before and after it, whether the source raised a fault  *)
(*   fed           number of send calls whose bytes the source was fed     *)
(*   eof           whether the source has reached its end: a read_line     *)
(*                 that finds no newline waits until it has                *)
(* Shared-stream adapter:                                                  *)
(*   holders       handles holding the RwLock                              *)
(*   hpc, hcall    per handle: position in its call, and the call          *)
(*   tx            bytes the socket has sent, each tagged with its call    *)
(*   rxAvail       bytes the socket has ready to read                      *)
(*   rxLog         the call that took each byte read so far                *)
(*   calls         calls started so far                                    *)
(***************************************************************************)
VARIABLES source, pos, sink, flushed, flushCalls, srcErrs, sinkErrs, sendLog, recvCount,
          last, fed, eof,
          holders, hpc, hcall, tx, rxAvail, rxLog, calls

connVars == <<source, pos, sink, flushed, flushCalls, srcErrs, sinkErrs, sendLog, recvCount,
              last, fed, eof>>
sharedVars == <<holders, hpc, hcall, tx, rxAvail, rxLog, calls>>
vars == <<source, pos, sink, flushed, flushCalls, srcErrs, sinkErrs, sendLog, recvCount,
          last, fed, eof,
          holders, hpc, hcall, tx, rxAvail, rxLog, calls>>

Range(s) == {s[i] : i \in 1..Len(s)}

(***************************************************************************)
(* BufRead::read_line as recv_message uses it (lib.rs:48-49).  read_until  *)
(* consumes up to and including the next newline, or to end-of-stream.     *)
(* The call fails when the bytes are not UTF-8 (after consuming them) or   *)
(* when the stream raises an I/O fault, which can happen after any part of *)
(* the line before its newline was consumed; a failed call leaves nothing  *)
(* in buf.                                                                 *)
(***************************************************************************)
\* Mutation: the read stops in front of the newline and leaves it unread.
LineEndBeforeNewline(src, p) ==
    IF \E i \in (p + 1)..Len(src) : src[i] = LF
    THEN (CHOOSE i \in (p + 1)..Len(src) :
            src[i] = LF /\ \A j \in (p + 1)..(i - 1) : src[j] # LF) - 1
    ELSE Len(src)

LineEnd(src, p) ==
    IF \E i \in (p + 1)..Len(src) : src[i] = LF
    THEN CHOOSE i \in (p + 1)..Len(src) :
            src[i] = LF /\ \A j \in (p + 1)..(i - 1) : src[j] # LF
    ELSE Len(src)

\* Mutation: a read that meets end-of-stream before any byte is an error.
read_line_eof_error(src, p, faulty) ==
    LET e == LineEnd(src, p)
        line == SubSeq(src, p + 1, e)
        body == IF e > p /\ src[e] = LF THEN e - p - 1 ELSE e - p
    IN  { IF BAD \in Range(line)
          THEN [ok |-> FALSE, err |-> "InvalidData", buf |-> <<>>, pos |-> e]
          ELSE IF e = p
          THEN [ok |-> FALSE, err |-> "UnexpectedEof", buf |-> <<>>, pos |-> e]
          ELSE [ok |-> TRUE, err |-> "", buf |-> line, pos |-> e] }
        \cup
        (IF faulty
         THEN {[ok |-> FALSE, err |-> "Io", buf |-> <<>>, pos |-> p + k] : k \in 0..body}
         ELSE {})

read_line(src, p, faulty) ==
    LET e == LineEnd(src, p)
        line == SubSeq(src, p + 1, e)
        body == IF e > p /\ src[e] = LF THEN e - p - 1 ELSE e - p
    IN  { IF BAD \in Range(line)
          THEN [ok |-> FALSE, err |-> "InvalidData", buf |-> <<>>, pos |-> e]
          ELSE [ok |-> TRUE, err |-> "", buf |-> line, pos |-> e] }
        \cup
        (IF faulty
         THEN {[ok |-> FALSE, err |-> "Io", buf |-> <<>>, pos |-> p + k] : k \in 0..body}
         ELSE {})

(***************************************************************************)
(* Connection::recv_message::<T> (lib.rs:47-52).                           *)
(***************************************************************************)
CanFault == srcErrs + sinkErrs < MaxIoErrors

NoRecv ==
    [T |-> "Value", kind |-> "None", v |-> NoValue, from |-> 0, to |-> 0, fault |-> FALSE]

\* Mutation: every failure of recv_message is reported as a read failure.
RecvResultAsRead(o, T) ==
    IF ~o.ok THEN [kind |-> "Read", v |-> NoValue]
    ELSE LET d == from_str(o.buf, T)
         IN  IF d.ok THEN [kind |-> "Ok", v |-> d.v]
             ELSE [kind |-> "Read", v |-> NoValue]

RecvResult(o, T) ==
    IF ~o.ok THEN [kind |-> "Read", v |-> NoValue]
    ELSE LET d == from_str(o.buf, T)
         IN  IF d.ok THEN [kind |-> "Ok", v |-> d.v]
             ELSE [kind |-> "Deserialize", v |-> NoValue]

recv_message(T) ==
    /\ recvCount < MaxRecvs
    /\ eof \/ LF \in Range(SubSeq(source, pos + 1, Len(source)))
    /\ \E o \in read_line(source, pos, CanFault) :
          LET r == RecvResult(o, T)
          IN  /\ pos' = o.pos
              /\ srcErrs' = IF o.err = "Io" THEN srcErrs + 1 ELSE srcErrs
              /\ recvCount' = recvCount + 1
              /\ last' = [T |-> T, kind |-> r.kind, v |-> r.v, from |-> pos, to |-> o.pos,
                           fault |-> o.err = "Io"]
    /\ UNCHANGED <<source, eof, sink, flushed, flushCalls, sinkErrs, sendLog, fed>>
    /\ UNCHANGED sharedVars

\* Mutation: Write::write in place of write_all: a short write counts as done.
write_short(s, buf, faulty) ==
    {[ok |-> TRUE, sink |-> s \o SubSeq(buf, 1, k)] : k \in 0..Len(buf)}
    \cup
    (IF faulty
     THEN {[ok |-> FALSE, sink |-> s \o SubSeq(buf, 1, k)] : k \in 0..(Len(buf) - 1)}
     ELSE {})

(***************************************************************************)
(* Write::write_all as send_message uses it (lib.rs:60-64): all of buf is  *)
(* appended, or a fault stops the call after some proper prefix of it.     *)
(***************************************************************************)
write_all(s, buf, faulty) ==
    {[ok |-> TRUE, sink |-> s \o buf]}
    \cup
    (IF faulty
     THEN {[ok |-> FALSE, sink |-> s \o SubSeq(buf, 1, k)] : k \in 0..(Len(buf) - 1)}
     ELSE {})

\* Mutation: the newline after the text is never written.
SendOutcomesNoNewline(s, v, faulty) ==
    LET json == to_string(v)
    IN  IF ~json.ok THEN {[kind |-> "Serialize", sink |-> s, faults |-> 0]}
        ELSE { [kind |-> IF w1.ok THEN "Ok" ELSE "Write", sink |-> w1.sink,
                faults |-> IF w1.ok THEN 0 ELSE 1] :
                 w1 \in write_all(s, json.text, faulty) }

\* Mutation: the result of writing the newline is dropped.
SendOutcomesNewlineUnchecked(s, v, faulty) ==
    LET json == to_string(v)
    IN  IF ~json.ok THEN {[kind |-> "Serialize", sink |-> s, faults |-> 0]}
        ELSE UNION {
               IF ~w1.ok THEN {[kind |-> "Write", sink |-> w1.sink, faults |-> 1]}
               ELSE { [kind |-> "Ok", sink |-> w2.sink,
                       faults |-> IF w2.ok THEN 0 ELSE 1] :
                        w2 \in write_all(w1.sink, <<LF>>, faulty) }
               : w1 \in write_all(s, json.text, faulty) }

(***************************************************************************)
(* Connection::send_message (lib.rs:55-67).                                *)
(***************************************************************************)
SendOutcomes(s, v, faulty) ==
    LET json == to_string(v)
    IN  IF ~json.ok THEN {[kind |-> "Serialize", sink |-> s, faults |-> 0]}
        ELSE UNION {
               IF ~w1.ok THEN {[kind |-> "Write", sink |-> w1.sink, faults |-> 1]}
               ELSE { [kind |-> IF w2.ok THEN "Ok" ELSE "Write", sink |-> w2.sink,
                       faults |-> IF w2.ok THEN 0 ELSE 1] :
                        w2 \in write_all(w1.sink, <<LF>>, faulty) }
               : w1 \in write_all(s, json.text, faulty) }

\* Mutation: send_message flushes the sink after the newline.
send_message_flushing(v) ==
    /\ Len(sendLog) < MaxSends
    /\ \E o \in SendOutcomes(sink, v, CanFault) :
          /\ sink' = o.sink
          /\ sinkErrs' = sinkErrs + o.faults
          /\ sendLog' = Append(sendLog, [v |-> v, kind |-> o.kind])
          /\ flushCalls' = IF o.kind = "Ok" THEN flushCalls + 1 ELSE flushCalls
          /\ flushed' = IF o.kind = "Ok" THEN Len(o.sink) ELSE flushed
    /\ UNCHANGED <<source, pos, eof, srcErrs, recvCount, last, fed>>
    /\ UNCHANGED sharedVars

send_message(v) ==
    /\ Len(sendLog) < MaxSends
    /\ \E o \in SendOutcomes(sink, v, CanFault) :
          /\ sink' = o.sink
          /\ sinkErrs' = sinkErrs + o.faults
          /\ sendLog' = Append(sendLog, [v |-> v, kind |-> o.kind])
    /\ UNCHANGED <<source, pos, eof, flushed, flushCalls, srcErrs, recvCount, last, fed>>
    /\ UNCHANGED sharedVars

(***************************************************************************)
(* Connection::flush (connection.rs:104-107): the sink's flush, which      *)
(* pushes out what the sink accepted, or fails having pushed out some.     *)
(***************************************************************************)
flush ==
    /\ flushCalls < MaxFlushes
    /\ flushCalls' = flushCalls + 1
    /\ \/ /\ flushed' = Len(sink)
          /\ UNCHANGED sinkErrs
       \/ /\ CanFault
          /\ flushed' \in flushed..Len(sink)
          /\ sinkErrs' = sinkErrs + 1
    /\ UNCHANGED <<source, pos, eof, sink, srcErrs, sendLog, recvCount, last, fed>>
    /\ UNCHANGED sharedVars

(***************************************************************************)
(* Connection::new (lib.rs:14-16) over a source that holds exactly the     *)
(* bytes the sink has accepted: the peer end of the transport.             *)
(***************************************************************************)
Feed ==
    /\ fed = 0
    /\ sendLog # <<>>
    /\ source' = sink
    /\ pos' = 0
    /\ recvCount' = 0
    /\ last' = NoRecv
    /\ fed' = Len(sendLog)
    /\ eof' = TRUE
    /\ UNCHANGED <<sink, flushed, flushCalls, srcErrs, sinkErrs, sendLog>>
    /\ UNCHANGED sharedVars

Handles == {1, 2}
NoCall == [op |-> "none", n |-> 0, done |-> 0, id |-> 0]

SharedIdle ==
    /\ holders = {}
    /\ hpc = [h \in Handles |-> "idle"]
    /\ hcall = [h \in Handles |-> NoCall]
    /\ tx = <<>>
    /\ rxAvail = 0
    /\ rxLog = <<>>
    /\ calls = 0

ConnNew(src, end) ==
    /\ source = src
    /\ eof = end
    /\ pos = 0
    /\ sink = <<>>
    /\ flushed = 0
    /\ flushCalls = 0
    /\ srcErrs = 0
    /\ sinkErrs = 0
    /\ sendLog = <<>>
    /\ recvCount = 0
    /\ last = NoRecv
    /\ fed = 0

(***************************************************************************)
(* Spec: a Connection whose sink is later read back through its source.    *)
(***************************************************************************)
Init == ConnNew(<<>>, FALSE) /\ SharedIdle

Next ==
    \/ \E v \in Values : send_message(v)
    \/ \E T \in Types : recv_message(T)
    \/ Feed

Spec == Init /\ [][Next]_vars

(***************************************************************************)
(* SpecSend: the sending side alone, with its flush.                       *)
(***************************************************************************)
NextSend ==
    \/ \E v \in Values : send_message(v)
    \/ flush

SpecSend == Init /\ [][NextSend]_vars

(***************************************************************************)
(* SpecRecv: the receiving side alone, on a source whose bytes are given:  *)
(* every byte string up to MaxRawLen, and every stream of up to MaxLines   *)
(* lines drawn from SampleLines, the last one with or without its newline. *)
(***************************************************************************)
RawBytes == {"a", "n", QUOTE, BSL, LF, "0", "1", "-", "{", BAD}
SampleLines ==
    { <<"1", "0">>, <<QUOTE, "a", QUOTE>>, <<"{">>, <<>>, <<BAD>>, <<QUOTE, "a">> }

SeqsUpTo(S, n) == UNION {[1..k -> S] : k \in 0..n}

RECURSIVE Join(_)
Join(ls) == IF ls = <<>> THEN <<>> ELSE Head(ls) \o <<LF>> \o Join(Tail(ls))

Streams ==
    LET whole == {Join(ls) : ls \in SeqsUpTo(SampleLines, MaxLines)}
    IN  whole \cup {SubSeq(w, 1, Len(w) - 1) : w \in whole \ {<<>>}}

Inputs == SeqsUpTo(RawBytes, MaxRawLen) \cup Streams

InitRecv == (\E src \in Inputs : ConnNew(src, TRUE)) /\ SharedIdle

NextRecv == \E T \in Types : recv_message(T)

SpecRecv == InitRecv /\ [][NextRecv]_vars

(***************************************************************************)
(* The shared-stream adapter (connection/mio.rs).  new_from_mio_tcp_stream *)
(* puts the socket behind one RwLock and hands a clone of the handle to    *)
(* the reader and one to the writer.  A call of read, write or flush on a  *)
(* handle takes the write lock, runs the socket's own call and drops the   *)
(* guard at the end of the statement.  The socket moves a call's bytes one *)
(* at a time and is non-blocking: its call can return at any point, with   *)
(* a short count or WouldBlock.                                            *)
(***************************************************************************)
Ops == {"read", "write", "flush"}

\* Mutation: RwLock::read in place of write: shared with the other lockers.
RwLockRead(h) == TRUE

\* RwLock::write: granted when nobody holds the lock.
RwLockWrite(h) == holders = {}

Call(h, op, n) ==
    /\ hpc[h] = "idle"
    /\ calls < MaxCalls
    /\ calls' = calls + 1
    /\ hcall' = [hcall EXCEPT ![h] =
                    [op |-> op, n |-> IF op = "flush" THEN 0 ELSE n, done |-> 0,
                     id |-> calls + 1]]
    /\ hpc' = [hpc EXCEPT ![h] = "acquire"]
    /\ UNCHANGED <<holders, tx, rxAvail, rxLog>>
    /\ UNCHANGED connVars

Acquire(h) ==
    /\ hpc[h] = "acquire"
    /\ RwLockWrite(h)
    /\ holders' = holders \cup {h}
    /\ hpc' = [hpc EXCEPT ![h] = "locked"]
    /\ UNCHANGED <<hcall, tx, rxAvail, rxLog, calls>>
    /\ UNCHANGED connVars

Transfer(h) ==
    /\ hpc[h] = "locked"
    /\ hcall[h].done < hcall[h].n
    /\ \/ /\ hcall[h].op = "write"
          /\ tx' = Append(tx, hcall[h].id)
          /\ UNCHANGED <<rxAvail, rxLog>>
       \/ /\ hcall[h].op = "read"
          /\ rxAvail > 0
          /\ rxAvail' = rxAvail - 1
          /\ rxLog' = Append(rxLog, hcall[h].id)
          /\ UNCHANGED tx
    /\ hcall' = [hcall EXCEPT ![h].done = @ + 1]
    /\ UNCHANGED <<holders, hpc, calls>>
    /\ UNCHANGED connVars

\* Mutation: the guard outlives the call, so the lock is not released.
ReturnHolding(h) ==
    /\ hpc[h] = "locked"
    /\ hpc' = [hpc EXCEPT ![h] = "idle"]
    /\ UNCHANGED <<holders, hcall, tx, rxAvail, rxLog, calls>>
    /\ UNCHANGED connVars

Return(h) ==
    /\ hpc[h] = "locked"
    /\ holders' = holders \ {h}
    /\ hpc' = [hpc EXCEPT ![h] = "idle"]
    /\ UNCHANGED <<hcall, tx, rxAvail, rxLog, calls>>
    /\ UNCHANGED connVars

\* The peer's bytes arriving at the socket.
PeerSend ==
    /\ rxAvail + Len(rxLog) < MaxRx
    /\ rxAvail' = rxAvail + 1
    /\ UNCHANGED <<holders, hpc, hcall, tx, rxLog, calls>>
    /\ UNCHANGED connVars

InitShared == ConnNew(<<>>, FALSE) /\ SharedIdle

NextShared ==
    \/ \E h \in Handles, op \in Ops, n \in 1..MaxBuf : Call(h, op, n)
    \/ \E h \in Handles : Acquire(h)
    \/ \E h \in Handles : Transfer(h)
    \/ \E h \in Handles : Return(h)
    \/ PeerSend

SpecShared == InitShared /\ [][NextShared]_vars

\* parking_lot's RwLock is task-fair: a waiting locker is not starved.
SpecSharedFair ==
    /\ InitShared
    /\ [][NextShared]_vars
    /\ \A h \in Handles : SF_vars(Acquire(h)) /\ WF_vars(Return(h))

(***************************************************************************)
(* Vocabulary of the properties.                                           *)
(***************************************************************************)
CountLF(s) == Cardinality({i \in 1..Len(s) : s[i] = LF})
AtBoundary(s) == s = <<>> \/ s[Len(s)] = LF
OkCount == Cardinality({i \in 1..Len(sendLog) : sendLog[i].kind = "Ok"})
AllOk(n) == \A i \in 1..n : sendLog[i].kind = "Ok"
NoWriteFailure == \A i \in 1..Len(sendLog) : sendLog[i].kind # "Write"
Record(v) == to_string(v).text \o <<LF>>

\* The records of the sends that returned Ok, one after the other.
RECURSIVE WireOf(_)
WireOf(log) ==
    IF log = <<>> THEN <<>>
    ELSE IF Head(log).kind = "Ok" THEN Record(Head(log).v) \o WireOf(Tail(log))
    ELSE WireOf(Tail(log))

SendStep == Len(sendLog') = Len(sendLog) + 1
NewEntry == sendLog'[Len(sendLog')]
\* The bytes of s up to and including its first newline, or all of s.
RECURSIVE TakeLine(_)
TakeLine(s) ==
    IF s = <<>> THEN <<>>
    ELSE IF Head(s) = LF THEN <<LF>>
    ELSE <<Head(s)>> \o TakeLine(Tail(s))

\* The position of the i-th newline of the source, or its end.
SegEnd(i) ==
    IF i = 0 THEN 0
    ELSE IF CountLF(source) >= i
    THEN CHOOSE p \in 1..Len(source) :
            source[p] = LF /\ CountLF(SubSeq(source, 1, p)) = i
    ELSE Len(source)

RECURSIVE Strip(_)
Strip(s) ==
    IF s = <<>> THEN s
    ELSE IF IsWs(Head(s)) THEN Strip(Tail(s))
    ELSE IF IsWs(s[Len(s)]) THEN Strip(SubSeq(s, 1, Len(s) - 1))
    ELSE s

\* JSON texts by enumeration: the text of every short string and small integer.
MaxUniverseStr == 2
MaxUniverseInt == 111
JsonUniverse ==
    {StrV(c) : c \in SeqsUpTo(RawBytes \ {BAD}, MaxUniverseStr)}
    \cup {IntV(n) : n \in (0 - MaxUniverseInt)..MaxUniverseInt}
JsonTexts ==
    [T \in Types |-> {to_string(v).text : v \in {u \in JsonUniverse : Matches(u, T)}}]
ValidFor(line, T) ==
    \/ Strip(line) \in JsonTexts[T]
    \/ T = "Value" /\ Strip(line) = <<"-", "0">>

\* The value whose JSON text is the given one, NoValue when there is none.
ValueOfText ==
    [t \in JsonTexts["Value"] |-> CHOOSE v \in JsonUniverse : to_string(v).text = t]
Denoted(text) == IF text \in JsonTexts["Value"] THEN ValueOfText[text] ELSE NoValue

Contiguous(log) ==
    \A i, k \in 1..Len(log) :
        (i < k /\ log[i] = log[k]) => \A j \in i..k : log[j] = log[i]

(***************************************************************************)
(* C1  Framing round-trip.  When the source holds exactly the bytes the    *)
(* sink received from sends that all succeeded, and the source raises no   *)
(* I/O fault, the i-th receive (asked for the type of the i-th value)      *)
(* returns the i-th value sent, and consumes exactly the bytes of the i-th *)
(* record: none lost, none shared with a neighbour.                        *)
(***************************************************************************)
RoundTrip ==
    (/\ fed > 0
     /\ AllOk(fed)
     /\ srcErrs = 0
     /\ recvCount \in 1..fed
     /\ Matches(sendLog[recvCount].v, last.T))
    => /\ last.kind = "Ok"
       /\ last.v = sendLog[recvCount].v
       /\ last.from = Len(WireOf(SubSeq(sendLog, 1, recvCount - 1)))
       /\ last.to = Len(WireOf(SubSeq(sendLog, 1, recvCount)))
       /\ pos = last.to

RoundTripWitness ==
    /\ fed = 2
    /\ AllOk(2)
    /\ srcErrs = 0
    /\ recvCount = 2
    /\ sendLog[1].v = StrV(<<LF>>)
    /\ sendLog[2].v = IntV(10)
    /\ last.T = "i64"
    /\ pos = Len(source)

(***************************************************************************)
(* C2  Newline discipline.  A send that returns Ok has appended to the     *)
(* sink the JSON text of its value and then one newline, and that text     *)
(* holds no newline byte; the sink holds as many newline bytes as sends    *)
(* have returned Ok.                                                       *)
(***************************************************************************)
NewlineDiscipline ==
    /\ [](CountLF(sink) = OkCount)
    /\ [][(SendStep /\ NewEntry.kind = "Ok")
            => /\ sink' = sink \o to_string(NewEntry.v).text \o <<LF>>
               /\ LF \notin Range(to_string(NewEntry.v).text)]_vars

NewlineDisciplineWitness ==
    /\ Len(sendLog) = 2
    /\ AllOk(2)
    /\ sendLog[1].v = StrV(<<LF>>)
    /\ CountLF(sink) = 2

(***************************************************************************)
(* C3  Receive-side classification.  A receive returns Read exactly when   *)
(* the line read failed (an I/O fault, or bytes that are not UTF-8); when  *)
(* the line was read, it returns Ok if the line is JSON for the target     *)
(* type and Deserialize if it is not.                                      *)
(***************************************************************************)
RecvClassification ==
    recvCount >= 1 =>
        LET line == TakeLine(SubSeq(source, last.from + 1, Len(source)))
            readFailed == last.fault \/ BAD \in Range(line)
        IN  /\ (last.kind = "Read") <=> readFailed
            /\ ~readFailed =>
                 last.kind = (IF ValidFor(line, last.T) THEN "Ok" ELSE "Deserialize")

RecvClassificationWitness ==
    /\ recvCount >= 1
    /\ SubSeq(source, last.from + 1, last.to) = <<"{", LF>>
    /\ last.kind = "Deserialize"

(***************************************************************************)
(* C4  Send-side classification.  A send returns Serialize exactly when    *)
(* the value has no JSON text, Write exactly when it has one and a write   *)
(* raised a fault, and Ok only when the text and the newline were both     *)
(* written in full.                                                        *)
(***************************************************************************)
SendClassification ==
    [][SendStep =>
        LET json == to_string(NewEntry.v)
        IN  /\ (NewEntry.kind = "Serialize") <=> ~json.ok
            /\ (NewEntry.kind = "Write") <=> (json.ok /\ sinkErrs' > sinkErrs)
            /\ (NewEntry.kind = "Ok") =>
                 /\ json.ok
                 /\ sinkErrs' = sinkErrs
                 /\ sink' = sink \o json.text \o <<LF>>
            /\ (NewEntry.kind = "Serialize") => sink' = sink]_vars

SendClassificationWitness ==
    /\ Len(sendLog) = 2
    /\ sendLog[1].kind = "Serialize"
    /\ sendLog[2].kind = "Write"
    /\ sink = <<"1", "0">>

(***************************************************************************)
(* C5  End-of-stream policy.  When no newline is left in the source and    *)
(* the read raises no fault, a receive takes all the remaining bytes as    *)
(* one record: it returns the value when they are its JSON text, and       *)
(* Deserialize, not Read, when none remain.                                *)
(***************************************************************************)
EndOfStreamPolicy ==
    LET rest == SubSeq(source, last.from + 1, Len(source))
    IN  (recvCount >= 1 /\ ~last.fault /\ LF \notin Range(rest) /\ BAD \notin Range(rest))
        => /\ pos = Len(source)
           /\ last.to = Len(source)
           /\ last.kind # "Read"
           /\ rest = <<>> => last.kind = "Deserialize"
           /\ (Denoted(rest) # NoValue /\ Matches(Denoted(rest), last.T))
                => (last.kind = "Ok" /\ last.v = Denoted(rest))

EndOfStreamWitness ==
    /\ source = <<"1", "0">>
    /\ srcErrs = 0
    /\ recvCount = 2
    /\ last.from = 2
    /\ last.to = 2
    /\ last.kind = "Deserialize"

(***************************************************************************)
(* C6  send never flushes.  A send step leaves the count of the sink's     *)
(* flush calls and the bytes pushed out as they were; only a flush step    *)
(* pushes bytes out, and it changes neither the sink's bytes nor the       *)
(* source.                                                                 *)
(***************************************************************************)
SendNeverFlushes ==
    [][/\ SendStep => (flushCalls' = flushCalls /\ flushed' = flushed)
       /\ flushed' # flushed => flushCalls' = flushCalls + 1
       /\ flushCalls' # flushCalls =>
            (sink' = sink /\ source' = source /\ pos' = pos /\ sendLog' = sendLog)]_vars

SendNeverFlushesWitness ==
    /\ Len(sendLog) = 2
    /\ AllOk(2)
    /\ flushCalls = 0
    /\ flushed = 0
    /\ Len(sink) > 0

(***************************************************************************)
(* C7  Shared-stream exclusivity.  At most one handle is inside a call of  *)
(* the socket at a time, and the bytes each call wrote to or read from     *)
(* the socket are consecutive: no other call's bytes lie between them.     *)
(***************************************************************************)
SharedExclusive ==
    /\ Cardinality({h \in Handles : hpc[h] = "locked"}) <= 1
    /\ Contiguous(tx)
    /\ Contiguous(rxLog)

SharedExclusiveWitness ==
    /\ hpc[1] = "locked"
    /\ hcall[1].op = "write"
    /\ hcall[1].n = 2
    /\ hcall[1].done = 1
    /\ hpc[2] = "acquire"
    /\ hcall[2].op = "write"

(***************************************************************************)
(* C8  Shared-stream lock scope.  The lock is held exactly by the handle   *)
(* that is inside a call of the socket, so it is free whenever no such     *)
(* call is in progress; and a handle that asks for the lock gets it.       *)
(***************************************************************************)
LockScope ==
    /\ [](holders = {h \in Handles : hpc[h] = "locked"})
    /\ \A h \in Handles : (hpc[h] = "acquire") ~> (hpc[h] = "locked")

LockScopeWitness ==
    /\ holders = {2}
    /\ hpc[1] = "idle"
    /\ hcall[1].op = "read"
    /\ hcall[1].id = 1
    /\ hpc[2] = "locked"
    /\ hcall[2].op = "write"
    /\ hcall[2].id = 2
    /\ calls = 2

OneLinePerReceive ==
    (srcErrs = 0 /\ recvCount >= 1)
    => /\ last.from = SegEnd(recvCount - 1)
       /\ last.to = SegEnd(recvCount)
       /\ pos = last.to
       /\ LET body == SubSeq(source, SegEnd(recvCount - 1) + 1, SegEnd(recvCount) - 1)
          IN  (/\ SegEnd(recvCount) > 0
               /\ source[SegEnd(recvCount)] = LF
               /\ Denoted(body) # NoValue
               /\ Matches(Denoted(body), last.T))
              => (last.kind = "Ok" /\ last.v = Denoted(body))

OneLinePerReceiveWitness ==
    /\ source = <<"1", "0", LF, "{", LF, QUOTE, "a", QUOTE, LF>>
    /\ srcErrs = 0
    /\ recvCount = 3
    /\ last.kind = "Ok"
    /\ last.v = StrV(<<"a">>)

====
